---- MODULE Spec2Model ----
(***************************************************************************)
(* Model of the crypto-analyzer signal engine (src/market_analyzer.py):    *)
(* the per-asset alert registry and volume state of CryptoAnalyzer, the    *)
(* bounded-retry fetches, and the rule set of analyze_signals.             *)
(***************************************************************************)
EXTENDS Integers, Sequences, FiniteSets, TLC

\* ------------------------------------------------------------------------
\* Bounds of the model
\* ------------------------------------------------------------------------
\* number of check_volume_surge calls recorded in volume_log
MaxVolumeCalls == 3
\* number of inputs in which an evaluated row may differ from the scenario row
MaxEdits == 2
\* number of iterations of the while loop of main()
MaxCycles == 2

\* ------------------------------------------------------------------------
\* Values
\* ------------------------------------------------------------------------
\* Python's None, and a present value v (an optional value is a sequence of
\* at most one element)
None == <<>>
Some(v) == <<v>>
Val(o) == o[1]

\* base_tickers of main()
Tickers == {"KRW-BTC", "KRW-DOGE"}

\* alert_type strings compared in check_price_alerts
AlertTypes == {"above", "below"}

\* target prices offered to set_price_alert
Targets == {100, 120}

\* prices offered to check_price_alerts
Prices == {99, 100, 101, 150}

\* latest-candle volumes offered to check_volume_surge
Volumes == {0, 100, 200, 250}

\* the df argument of check_volume_surge: None, or a frame of n candles whose
\* last volume is v
Frames == {None} \cup {Some(f) : f \in [len : {1, 2}, volume : Volumes, indicators : {TRUE}]}

\* results of pyupbit.get_current_price(ticker): an exception, None or a price
PriceResults ==
    {[exc |-> TRUE, value |-> None]} \cup
    {[exc |-> FALSE, value |-> v] : v \in {None, Some(99), Some(101)}}

\* results of pyupbit.get_ohlcv(ticker, interval, count): an exception, None
\* or a frame of len candles (df.empty is len = 0)
SeriesResults ==
    {[exc |-> TRUE, value |-> None]} \cup
    {[exc |-> FALSE, value |-> v] :
        v \in {None} \cup {Some(f) : f \in [len : {0, 1, 60}, volume : {100},
                                              indicators : {FALSE}]}}

VARIABLES
    price_alerts,   \* [Tickers -> Seq(<<target_price, alert_type>>)]: self.price_alerts (insertion-ordered dict)
    last_volume,    \* [Tickers -> {None} \cup {Some(v) : v \in Volumes}]: self.last_volume
    alert_call,     \* what the last set_price_alert / check_price_alerts call did
    fired,          \* [Tickers -> SUBSET Targets]: the targets announced since they were last registered
    volume_log,     \* Seq of records: the check_volume_surge calls made so far
    f_pc,           \* position in get_current_price / calculate_indicators: idle, loop, after, done
    f_kind,         \* "price": get_current_price, "series": calculate_indicators
    f_attempts,     \* iterations of the retry loop begun
    f_value,        \* the local variable price / df
    f_calls,        \* Seq of provider results: the provider calls of this fetch
    f_ret,          \* what the fetch gave its caller
    ev_in,          \* the inputs of the rule set: latest row, previous histogram, OBV average, current_price
    ev_result,      \* None, or the signals and signal_strength analyze_signals put in result
    lt_call,        \* what the last analyze_signals call of app.py's CryptoAnalyzer did
    last_signal,    \* self.last_signal of app.py's CryptoAnalyzer
    shown,          \* the signal box main() of app.py drew for the last call
    r_pc,           \* position in get_top_volume_tickers: idle, markets, daily, after, sort, done
    tickers,        \* the local variable tickers: the provider's listing
    markets,        \* the local variable markets
    r_attempts,     \* iterations begun of the retry loop being executed
    r_i,            \* the position in tickers of the candidate being fetched
    daily_data,     \* the local variable daily_data
    volume_data,    \* the local variable volume_data: Seq(<<ticker, volume>>)
    r_ret,          \* None, or the list get_top_volume_tickers returned
    daily_log,      \* Seq of records: how the daily fetch of each candidate visited so far ended
    analyzers,      \* Seq of tickers: the keys of the dict analyzers of main(), in insertion order
    p_pc,           \* position in main(): start, cycle, assets, price, series, sleep, exited
    p_cycle,        \* iterations of the while loop begun
    p_i,            \* the position in analyzers of the analyzer being evaluated
    p_price,        \* the local variable current_price of analyze_signals
    p_out,          \* Seq of records: what main() printed for each analyzer in this iteration
    p_failed,       \* the tickers that gave no result in the previous iteration
    p_exit          \* where the program was when KeyboardInterrupt was raised

trackerVars == <<price_alerts, last_volume, alert_call, fired, volume_log>>
fetchVars == <<f_pc, f_kind, f_attempts, f_value, f_calls, f_ret>>
evalVars == <<ev_in, ev_result>>
appVars == <<lt_call, last_signal, shown>>
rankVars == <<r_pc, tickers, markets, r_attempts, r_i, daily_data, volume_data, r_ret,
              daily_log>>
pollVars == <<analyzers, p_pc, p_cycle, p_i, p_price, p_out, p_failed, p_exit>>
restVars == <<rankVars, pollVars>>
vars == <<price_alerts, last_volume, alert_call, fired, volume_log,
          f_pc, f_kind, f_attempts, f_value, f_calls, f_ret, ev_in, ev_result,
          lt_call, last_signal, shown,
          r_pc, tickers, markets, r_attempts, r_i, daily_data, volume_data, r_ret,
          daily_log,
          analyzers, p_pc, p_cycle, p_i, p_price, p_out, p_failed, p_exit>>

\* ------------------------------------------------------------------------
\* dict helpers (Python dict: unique keys, insertion order)
\* ------------------------------------------------------------------------
\* the position of key k in d, 0 when k is absent
DictIndex(d, k) ==
    IF \E i \in 1..Len(d) : d[i][1] = k
    THEN CHOOSE i \in 1..Len(d) : d[i][1] = k /\ \A j \in 1..(i - 1) : d[j][1] # k
    ELSE 0

DictKeys(d) == {d[i][1] : i \in 1..Len(d)}

\* mutant of DictSet: always inserts a new entry, never replaces
DictSetAppend(d, k, v) == Append(d, <<k, v>>)

\* d[k] = v: replaces the value in place when k is present, else appends
DictSet(d, k, v) ==
    IF DictIndex(d, k) = 0 THEN Append(d, <<k, v>>)
    ELSE [d EXCEPT ![DictIndex(d, k)] = <<k, v>>]

\* del d[k]
DictDel(d, k) == SelectSeq(d, LAMBDA e : e[1] # k)

RECURSIVE DictDelAll(_, _)
\* for price in ks: del d[price]
DictDelAll(d, ks) ==
    IF ks = <<>> THEN d ELSE DictDelAll(DictDel(d, Head(ks)), Tail(ks))

\* ------------------------------------------------------------------------
\* Alert registry: set_price_alert, check_price_alerts
\* ------------------------------------------------------------------------
\* the two branch conditions of the loop body of check_price_alerts
AlertHits(alert_type, target_price, current_price) ==
    \/ alert_type = "above" /\ current_price > target_price
    \/ alert_type = "below" /\ current_price < target_price

RECURSIVE ScanAlertsLifo(_, _, _, _, _)
\* mutant of ScanAlerts: collects the announced entries newest first
ScanAlertsLifo(items, current_price, fail_at, printed, alerts_to_remove) ==
    IF items = <<>>
    THEN [printed |-> printed, alerts_to_remove |-> alerts_to_remove, raised |-> FALSE]
    ELSE LET target_price == Head(items)[1]
             alert_type == Head(items)[2]
         IN  IF AlertHits(alert_type, target_price, current_price)
             THEN IF Len(printed) + 1 = fail_at
                  THEN [printed |-> <<Head(items)>> \o printed,
                        alerts_to_remove |-> alerts_to_remove, raised |-> TRUE]
                  ELSE ScanAlertsLifo(Tail(items), current_price, fail_at,
                                      <<Head(items)>> \o printed,
                                      Append(alerts_to_remove, target_price))
             ELSE ScanAlertsLifo(Tail(items), current_price, fail_at, printed,
                                 alerts_to_remove)

RECURSIVE ScanAlerts(_, _, _, _, _)
\* The for loop over self.price_alerts.items(): items still to visit, the
\* entries announced (print) so far and the targets collected in
\* alerts_to_remove.  Each announced entry is followed by one playsound call;
\* call number fail_at raises (0: none does), which ends the loop with the
\* exception propagating out of check_price_alerts.
ScanAlerts(items, current_price, fail_at, printed, alerts_to_remove) ==
    IF items = <<>>
    THEN [printed |-> printed, alerts_to_remove |-> alerts_to_remove, raised |-> FALSE]
    ELSE LET target_price == Head(items)[1]
             alert_type == Head(items)[2]
         IN  IF AlertHits(alert_type, target_price, current_price)
             THEN IF Len(printed) + 1 = fail_at
                  THEN [printed |-> Append(printed, Head(items)),
                        alerts_to_remove |-> alerts_to_remove, raised |-> TRUE]
                  ELSE ScanAlerts(Tail(items), current_price, fail_at,
                                  Append(printed, Head(items)),
                                  Append(alerts_to_remove, target_price))
             ELSE ScanAlerts(Tail(items), current_price, fail_at, printed, alerts_to_remove)

\* the registry after check_price_alerts: the removal loop runs only when the
\* scan loop ended without an exception
AfterCheck(d, scan) ==
    IF scan.raised THEN d ELSE DictDelAll(d, scan.alerts_to_remove)

\* CryptoAnalyzer.set_price_alert(target_price, alert_type) on the analyzer of ticker a
set_price_alert(a, target_price, alert_type) ==
    /\ price_alerts' = [price_alerts EXCEPT ![a] = DictSet(@, target_price, alert_type)]
    /\ fired' = [fired EXCEPT ![a] = @ \ {target_price}]
    /\ alert_call' = [op |-> "set_price_alert", ticker |-> a, arg |-> target_price,
                      alert_type |-> alert_type, before |-> price_alerts[a],
                      printed |-> <<>>, raised |-> FALSE, ret |-> None]
    /\ UNCHANGED <<last_volume, volume_log, fetchVars, evalVars, appVars, restVars>>

\* CryptoAnalyzer.check_price_alerts(current_price) on the analyzer of ticker a;
\* fail_at chooses the playsound call that raises
check_price_alerts(a, current_price, fail_at) ==
    LET scan == ScanAlerts(price_alerts[a], current_price, fail_at, <<>>, <<>>)
    IN  /\ fail_at = 0 \/ scan.raised
        /\ price_alerts' = [price_alerts EXCEPT ![a] = AfterCheck(@, scan)]
        /\ fired' = [fired EXCEPT ![a] = @ \cup DictKeys(scan.printed)]
        /\ alert_call' = [op |-> "check_price_alerts", ticker |-> a, arg |-> current_price,
                          alert_type |-> "", before |-> price_alerts[a],
                          printed |-> scan.printed, raised |-> scan.raised, ret |-> None]
        /\ UNCHANGED <<last_volume, volume_log, fetchVars, evalVars, appVars, restVars>>

\* ------------------------------------------------------------------------
\* Volume state: check_volume_surge
\* ------------------------------------------------------------------------
\* self.volume_alert_threshold
volume_alert_threshold == 2

\* numpy float64 division current_volume / self.last_volume of non-negative
\* volumes: x/0 is inf, 0/0 is nan, neither raises
FloatDiv(x, y) ==
    IF y # 0 THEN [kind |-> "num", num |-> x, den |-> y]
    ELSE IF x = 0 THEN [kind |-> "nan", num |-> 0, den |-> 0]
    ELSE [kind |-> "inf", num |-> x, den |-> 0]

\* volume_change > threshold (comparisons with nan are False)
FloatGt(r, t) ==
    CASE r.kind = "nan" -> FALSE
      [] r.kind = "inf" -> TRUE
      [] OTHER -> r.num > t * r.den

NoRatio == [kind |-> "none", num |-> 0, den |-> 0]

\* mutant of SurgeDetected: a missing previous volume is taken as 0
SurgeDetectedNoneAsZero(last, current_volume) ==
    FloatGt(FloatDiv(current_volume, IF last = None THEN 0 ELSE Val(last)),
            volume_alert_threshold)

\* the nested conditions of check_volume_surge under which the surge is printed
SurgeDetected(last, current_volume) ==
    /\ last # None
    /\ FloatGt(FloatDiv(current_volume, Val(last)), volume_alert_threshold)

\* CryptoAnalyzer.check_volume_surge(df) on the analyzer of ticker a;
\* sink_fails: the playsound call of the surge branch raises
check_volume_surge(a, df, sink_fails) ==
    /\ Len(volume_log) < MaxVolumeCalls
    /\ IF df = None \/ (df # None /\ Val(df).len < 2)
       THEN /\ ~sink_fails
            /\ last_volume' = last_volume
            /\ volume_log' = Append(volume_log,
                   [ticker |-> a, df |-> df, checked |-> FALSE, prev |-> last_volume[a],
                    volume_change |-> NoRatio, surge |-> FALSE, raised |-> FALSE])
       ELSE LET current_volume == Val(df).volume
                compared == last_volume[a] # None
                volume_change == IF compared THEN FloatDiv(current_volume, Val(last_volume[a]))
                                 ELSE NoRatio
                surge == SurgeDetected(last_volume[a], current_volume)
            IN  /\ sink_fails => surge
                /\ last_volume' = IF sink_fails THEN last_volume
                                  ELSE [last_volume EXCEPT ![a] = Some(current_volume)]
                /\ volume_log' = Append(volume_log,
                       [ticker |-> a, df |-> df, checked |-> TRUE, prev |-> last_volume[a],
                        volume_change |-> volume_change, surge |-> surge,
                        raised |-> sink_fails])
    /\ UNCHANGED <<price_alerts, alert_call, fired, fetchVars, evalVars, appVars, restVars>>

\* ------------------------------------------------------------------------
\* Series fetcher: the retry loops of get_current_price and calculate_indicators
\* ------------------------------------------------------------------------
\* mutant of MaxAttempts: one iteration more
MaxAttemptsOffByOne == 4

\* range(3) of both retry loops
MaxAttempts == 3

\* done: the fetch returned; raised: an exception reached its caller; fault:
\* the indicator computation raised inside calculate_indicators
NotReturned == [done |-> FALSE, raised |-> FALSE, fault |-> FALSE, value |-> None]

\* mutant of Succeeded: the loop never breaks
SucceededNever(kind, value) == FALSE

\* the break conditions: price is not None / df is not None and not df.empty
Succeeded(kind, value) ==
    /\ value # None
    /\ kind = "series" => Val(value).len # 0

\* the columns calculate_indicators adds to the fetched frame
WithIndicators(df) == [df EXCEPT !.indicators = TRUE]

\* entry of get_current_price (kind = "price") or calculate_indicators ("series")
FetchStart(kind) ==
    /\ f_pc = "idle"
    /\ f_pc' = "loop"
    /\ f_kind' = kind
    /\ f_attempts' = 0
    /\ f_value' = None
    /\ f_calls' = <<>>
    /\ f_ret' = NotReturned
    /\ UNCHANGED <<trackerVars, evalVars, appVars, restVars>>

\* one iteration of the retry loop, the provider answering r: an exception is
\* swallowed by the inner except and leaves the local variable as it was
ProviderCall(r) ==
    /\ f_pc = "loop"
    /\ f_attempts < MaxAttempts
    /\ f_attempts' = f_attempts + 1
    /\ f_calls' = Append(f_calls, r)
    /\ f_value' = IF r.exc THEN f_value ELSE r.value
    /\ f_pc' = IF ~r.exc /\ Succeeded(f_kind, r.value) THEN "after"
               ELSE IF f_attempts + 1 < MaxAttempts THEN "loop"
               ELSE "after"
    /\ UNCHANGED <<f_kind, f_ret>>
    /\ UNCHANGED <<trackerVars, evalVars, appVars, restVars>>

\* return price
get_current_price_return ==
    /\ f_pc = "after"
    /\ f_kind = "price"
    /\ f_pc' = "done"
    /\ f_ret' = [done |-> TRUE, raised |-> FALSE, fault |-> FALSE, value |-> f_value]
    /\ UNCHANGED <<f_kind, f_attempts, f_value, f_calls>>
    /\ UNCHANGED <<trackerVars, evalVars, appVars, restVars>>

\* mutant of calculate_indicators_return: a frame of fewer than 60 candles is
\* answered with None
calculate_indicators_return_min_len(fault) ==
    /\ f_pc = "after"
    /\ f_kind = "series"
    /\ f_pc' = "done"
    /\ IF f_value = None \/ (f_value # None /\ Val(f_value).len < 60)
       THEN /\ ~fault
            /\ f_ret' = [done |-> TRUE, raised |-> FALSE, fault |-> FALSE, value |-> None]
       ELSE f_ret' = [done |-> TRUE, raised |-> FALSE, fault |-> fault,
                      value |-> IF fault THEN None ELSE Some(WithIndicators(Val(f_value)))]
    /\ UNCHANGED <<f_kind, f_attempts, f_value, f_calls>>
    /\ UNCHANGED <<trackerVars, evalVars, appVars, restVars>>

\* the rest of calculate_indicators: None for an absent or empty frame, else
\* the frame with its indicator columns; fault: an indicator computation
\* raises, which the outer except turns into None
calculate_indicators_return(fault) ==
    /\ f_pc = "after"
    /\ f_kind = "series"
    /\ f_pc' = "done"
    /\ IF f_value = None \/ (f_value # None /\ Val(f_value).len = 0)
       THEN /\ ~fault
            /\ f_ret' = [done |-> TRUE, raised |-> FALSE, fault |-> FALSE, value |-> None]
       ELSE f_ret' = [done |-> TRUE, raised |-> FALSE, fault |-> fault,
                      value |-> IF fault THEN None ELSE Some(WithIndicators(Val(f_value)))]
    /\ UNCHANGED <<f_kind, f_attempts, f_value, f_calls>>
    /\ UNCHANGED <<trackerVars, evalVars, appVars, restVars>>

\* ------------------------------------------------------------------------
\* Signal aggregation: the rule set of analyze_signals
\* ------------------------------------------------------------------------
\* the row of the specification's scenario: the columns of df.iloc[-1] the
\* rules read, df['MACD_Hist'].iloc[-2], obv_ma.iloc[-1] and current_price
ScenarioRow ==
    [RSI |-> 25, MACD |-> -2, MACD_Signal |-> -1, MACD_Hist |-> -1, prev_MACD_Hist |-> 0,
     MA5 |-> 104, MA20 |-> 105, MA60 |-> 110, BB_Lower |-> 95, BB_Upper |-> 115,
     Stoch_K |-> 15, Stoch_D |-> 10, ADX |-> 30, DI_plus |-> 10, DI_minus |-> 20,
     OBV |-> -5, OBV_MA |-> 0, close |-> 100, Ichimoku_SpanA |-> 108,
     Ichimoku_SpanB |-> 112, ROC |-> -6, Upper_Channel |-> 120, Lower_Channel |-> 100,
     current_price |-> 100]

\* a row on which every rule but the Bollinger rule is on its bearish side
BearRow == [ScenarioRow EXCEPT !.RSI = 75, !.Stoch_K = 85, !.Stoch_D = 90]

\* the rows a newly fetched series may end in
BaseRows == {ScenarioRow, BearRow}

\* the inputs that vary independently (MACD_Hist is macd_diff = MACD - MACD_Signal)
FreeFields == DOMAIN ScenarioRow \ {"MACD_Hist"}

\* the other values offered for each input
Alternatives(f) ==
    CASE f = "RSI" -> {30, 75}
      [] f \in {"MACD", "MACD_Signal"} -> {-2, -1, 0}
      [] f = "prev_MACD_Hist" -> {-1, 1}
      [] f \in {"MA5", "MA20", "MA60"} -> {104, 105, 110}
      [] f = "BB_Lower" -> {100, 104}
      [] f = "BB_Upper" -> {110, 120}
      [] f = "Stoch_K" -> {20, 85}
      [] f = "Stoch_D" -> {15, 90}
      [] f = "ADX" -> {20, 25}
      [] f \in {"DI_plus", "DI_minus"} -> {10, 20, 30}
      [] f \in {"OBV", "OBV_MA"} -> {-5, 0, 5}
      [] f = "close" -> {108, 115}
      [] f \in {"Ichimoku_SpanA", "Ichimoku_SpanB"} -> {99, 100}
      [] f = "ROC" -> {-5, 6}
      [] f = "Upper_Channel" -> {100, 101}
      [] f = "Lower_Channel" -> {99, 101}
      [] f = "current_price" -> {99, 121}

\* relations calculate_indicators builds into every row: the histogram is
\* MACD - signal, the Bollinger bands lie around BB_Middle = MA20, the latest
\* close and the mean of the last 20 closes lie between the 20-period low and
\* high, and when these two are equal the last 20 closes are equal too
\* (MA5 = MA20, ROC = 0)
ValidRow(row) ==
    /\ row.MACD_Hist = row.MACD - row.MACD_Signal
    /\ row.BB_Lower =< row.MA20 /\ row.MA20 =< row.BB_Upper
    /\ row.Lower_Channel =< row.close /\ row.close =< row.Upper_Channel
    /\ row.Lower_Channel =< row.MA20 /\ row.MA20 =< row.Upper_Channel
    /\ row.Lower_Channel = row.Upper_Channel => (row.MA5 = row.MA20 /\ row.ROC = 0)

\* the number of inputs in which row differs from the scenario row
Distance(row) == Cardinality({f \in FreeFields : row[f] # ScenarioRow[f]})

\* mutant of Observe: the contribution is counted twice
ObserveTwice(acc, text, delta) ==
    [signals |-> Append(acc.signals, text), signal_strength |-> acc.signal_strength + 2 * delta]

\* signals.append(text); signal_strength += delta
Observe(acc, text, delta) ==
    [signals |-> Append(acc.signals, text), signal_strength |-> acc.signal_strength + delta]

\* signals = []; signal_strength = 0
NoSignals == [signals |-> <<>>, signal_strength |-> 0]

RsiRule(acc, latest) ==
    IF latest.RSI < 30 THEN Observe(acc, "RSI oversold (buy)", 1)
    ELSE IF latest.RSI > 70 THEN Observe(acc, "RSI overbought (sell)", -1)
    ELSE acc

MacdRule(acc, latest) ==
    IF latest.MACD > latest.MACD_Signal
    THEN IF latest.MACD_Hist > latest.prev_MACD_Hist
         THEN Observe(acc, "MACD uptrend strengthening", 1)
         ELSE Observe(acc, "MACD uptrend", 0)
    ELSE IF latest.MACD_Hist < latest.prev_MACD_Hist
         THEN Observe(acc, "MACD downtrend strengthening", -1)
         ELSE Observe(acc, "MACD downtrend", 0)

MovingAverageRule(acc, latest) ==
    IF latest.MA5 > latest.MA20 /\ latest.MA20 > latest.MA60
    THEN Observe(acc, "moving averages golden cross", 1)
    ELSE IF latest.MA5 < latest.MA20 /\ latest.MA20 < latest.MA60
    THEN Observe(acc, "moving averages dead cross", -1)
    ELSE acc

BollingerRule(acc, latest) ==
    IF latest.current_price < latest.BB_Lower
    THEN Observe(acc, "below lower Bollinger band (buy)", 1)
    ELSE IF latest.current_price > latest.BB_Upper
    THEN Observe(acc, "above upper Bollinger band (sell)", -1)
    ELSE acc

StochasticRule(acc, latest) ==
    IF latest.Stoch_K < 20 /\ latest.Stoch_K > latest.Stoch_D
    THEN Observe(acc, "stochastic oversold rebound", 1)
    ELSE IF latest.Stoch_K > 80 /\ latest.Stoch_K < latest.Stoch_D
    THEN Observe(acc, "stochastic overbought decline", -1)
    ELSE acc

DmiRule(acc, latest) ==
    IF latest.DI_plus > latest.DI_minus /\ latest.ADX > 25
    THEN Observe(acc, "DMI strong uptrend", 1)
    ELSE IF latest.DI_minus > latest.DI_plus /\ latest.ADX > 25
    THEN Observe(acc, "DMI strong downtrend", -1)
    ELSE acc

ObvRule(acc, latest) ==
    IF latest.OBV > latest.OBV_MA THEN Observe(acc, "OBV uptrend (buyers lead)", 1)
    ELSE IF latest.OBV < latest.OBV_MA THEN Observe(acc, "OBV downtrend (sellers lead)", -1)
    ELSE acc

IchimokuRule(acc, latest) ==
    IF latest.close > latest.Ichimoku_SpanA /\ latest.close > latest.Ichimoku_SpanB
    THEN Observe(acc, "Ichimoku bullish", 1)
    ELSE IF latest.close < latest.Ichimoku_SpanA /\ latest.close < latest.Ichimoku_SpanB
    THEN Observe(acc, "Ichimoku bearish", -1)
    ELSE acc

RocRule(acc, latest) ==
    IF latest.ROC > 5 THEN Observe(acc, "ROC strong upward momentum", 1)
    ELSE IF latest.ROC < -5 THEN Observe(acc, "ROC strong downward momentum", -1)
    ELSE acc

PriceChannelRule(acc, latest) ==
    IF latest.current_price >= latest.Upper_Channel
    THEN Observe(acc, "upper channel breakout", 1)
    ELSE IF latest.current_price =< latest.Lower_Channel
    THEN Observe(acc, "lower channel breakout", -1)
    ELSE acc

\* rule number i of analyze_signals, in source order
Rule(i, acc, latest) ==
    CASE i = 1 -> RsiRule(acc, latest)
      [] i = 2 -> MacdRule(acc, latest)
      [] i = 3 -> MovingAverageRule(acc, latest)
      [] i = 4 -> BollingerRule(acc, latest)
      [] i = 5 -> StochasticRule(acc, latest)
      [] i = 6 -> DmiRule(acc, latest)
      [] i = 7 -> ObvRule(acc, latest)
      [] i = 8 -> IchimokuRule(acc, latest)
      [] i = 9 -> RocRule(acc, latest)
      [] i = 10 -> PriceChannelRule(acc, latest)

NumRules == 10

RECURSIVE RunRules(_, _, _)
\* the rule blocks executed one after the other on signals, signal_strength
RunRules(i, acc, latest) ==
    IF i > NumRules THEN acc ELSE RunRules(i + 1, Rule(i, acc, latest), latest)

\* no analyze_signals call of app.py was made on the current inputs
NotCalled == [called |-> FALSE, price |-> None, fetched |-> FALSE, df |-> None,
              result |-> None]

\* the provider and the indicator pipeline deliver the next row: one input
\* takes another value
NewInputs(f, v) ==
    LET changed == [ev_in EXCEPT ![f] = v]
        row == [changed EXCEPT !.MACD_Hist = changed.MACD - changed.MACD_Signal]
    IN  /\ v # ev_in[f]
        /\ ValidRow(row)
        /\ Distance(row) =< MaxEdits
        /\ ev_in' = row
        /\ ev_result' = None
        /\ lt_call' = NotCalled
        /\ shown' = None
        /\ UNCHANGED <<trackerVars, fetchVars, last_signal, restVars>>

\* the provider delivers another series, which ends in the row base
NewSeries(base) ==
    /\ base # ev_in
    /\ ValidRow(base)
    /\ ev_in' = base
    /\ ev_result' = None
    /\ lt_call' = NotCalled
    /\ shown' = None
    /\ UNCHANGED <<trackerVars, fetchVars, last_signal, restVars>>

\* the rule set of analyze_signals on the current inputs
analyze_signals_rules ==
    /\ ev_result = None
    /\ ev_result' = Some(RunRules(1, NoSignals, ev_in))
    /\ UNCHANGED <<ev_in, trackerVars, fetchVars, appVars, restVars>>

\* ------------------------------------------------------------------------
\* app.py: the lighter CryptoAnalyzer
\* ------------------------------------------------------------------------
\* not-a-number, the value of an indicator column in a row with too few
\* preceding candles
NaN == <<>>

\* comparisons of two column values (a comparison with NaN is False)
NanGt(x, y) == x # NaN /\ y # NaN /\ Val(x) > Val(y)
NanLt(x, y) == x # NaN /\ y # NaN /\ Val(x) < Val(y)

\* RSIIndicator(close, window=14)
RsiWindow == 14
\* MACD(close): the slow average of 26 candles, on which the MACD line waits
MacdWindow == 26
\* MACD(close): the 9-candle signal average of the MACD line, defined from
\* candle 26 + 9 - 1
MacdSignalWindow == 34
\* rolling(window=5), rolling(window=20)
Ma5Window == 5
Ma20Window == 20
\* len(df) < 20
AppMinLen == 20

\* the value of a column of window w in the last row of a frame of len candles
Rolling(v, w, len) == IF len >= w THEN Some(v) ELSE NaN

\* the columns calculate_indicators of app.py adds, in the last row of a frame
\* of len candles whose fully defined values are those of row
AppIndicators(len, row) ==
    [RSI |-> Rolling(row.RSI, RsiWindow, len),
     MACD |-> Rolling(row.MACD, MacdWindow, len),
     MACD_Signal |-> Rolling(row.MACD_Signal, MacdSignalWindow, len),
     MA5 |-> Rolling(row.MA5, Ma5Window, len),
     MA20 |-> Rolling(row.MA20, Ma20Window, len)]

\* numbers of candles of the frames the provider gives app.py
AppLens == {0, 19, 20, 34}

\* results of pyupbit.get_current_price(ticker) in app.py
AppPriceResults(row) ==
    {[exc |-> TRUE, value |-> None]} \cup
    {[exc |-> FALSE, value |-> v] : v \in {None, Some(row.current_price)}}

\* results of pyupbit.get_ohlcv(ticker, interval, count) in app.py
AppSeriesResults ==
    {[exc |-> TRUE, value |-> None]} \cup
    {[exc |-> FALSE, value |-> v] : v \in {None} \cup {Some([len |-> n]) : n \in AppLens}}

\* get_current_price of app.py: one provider call, an exception gives None
AppCurrentPrice(r) == IF r.exc THEN None ELSE r.value

\* calculate_indicators of app.py: one provider call; None for an exception,
\* an absent or an empty frame, else the frame with its indicator columns
AppCalculateIndicators(r, row) ==
    IF r.exc \/ r.value = None THEN None
    ELSE IF Val(r.value).len = 0 THEN None
    ELSE Some([len |-> Val(r.value).len, latest |-> AppIndicators(Val(r.value).len, row)])

AppRsiRule(acc, latest) ==
    IF NanLt(latest.RSI, Some(30)) THEN Observe(acc, "RSI oversold", 2)
    ELSE IF NanGt(latest.RSI, Some(70)) THEN Observe(acc, "RSI overbought", -2)
    ELSE acc

\* mutant of AppMacdRule: the bearish branch is a test of its own, so a tie
\* or an undefined value contributes nothing
AppMacdRuleElif(acc, latest) ==
    IF NanGt(latest.MACD, latest.MACD_Signal) THEN Observe(acc, "MACD rising", 1)
    ELSE IF NanLt(latest.MACD, latest.MACD_Signal) THEN Observe(acc, "MACD falling", -1)
    ELSE acc

AppMacdRule(acc, latest) ==
    IF NanGt(latest.MACD, latest.MACD_Signal) THEN Observe(acc, "MACD rising", 1)
    ELSE Observe(acc, "MACD falling", -1)

AppMaRule(acc, latest) ==
    IF NanGt(latest.MA5, latest.MA20) THEN Observe(acc, "short-term rise", 1)
    ELSE Observe(acc, "short-term fall", -1)

\* the three rule blocks of analyze_signals of app.py, in source order
AppRunRules(latest) == AppMaRule(AppMacdRule(AppRsiRule(NoSignals, latest), latest), latest)

\* get_signal_color(strength)
get_signal_color(strength) ==
    IF strength >= 2 THEN "green"
    ELSE IF strength = 1 THEN "lightgreen"
    ELSE IF strength = 0 THEN "gray"
    ELSE IF strength = -1 THEN "pink"
    ELSE "red"

\* get_signal_message(strength): the title and the description
get_signal_message(strength) ==
    IF strength >= 2 THEN <<"strong buy", "an opportunity to buy">>
    ELSE IF strength = 1 THEN <<"buy", "buying can be considered">>
    ELSE IF strength = 0 THEN <<"neutral", "wait and see">>
    ELSE IF strength = -1 THEN <<"sell", "selling can be considered">>
    ELSE <<"strong sell", "an opportunity to sell">>

\* what main() of app.py draws for a result: nothing for None, else the
\* signal box of the score
SignalBox(result) ==
    IF result = None THEN None
    ELSE Some([signal_color |-> get_signal_color(Val(result).signal_strength),
               signal_title |-> get_signal_message(Val(result).signal_strength)[1],
               signal_desc |-> get_signal_message(Val(result).signal_strength)[2]])

\* the body of the loop of main() of app.py for one ticker: analyze_signals,
\* the provider answering price_r and series_r, and the signal box drawn
\* for its result
app_analyze_signals(price_r, series_r) ==
    LET current_price == AppCurrentPrice(price_r)
        df == AppCalculateIndicators(series_r, ev_in)
    IN  /\ IF current_price = None
           THEN /\ lt_call' = [called |-> TRUE, price |-> None, fetched |-> FALSE,
                               df |-> None, result |-> None]
                /\ UNCHANGED last_signal
           ELSE IF df = None \/ (df # None /\ Val(df).len < AppMinLen)
           THEN /\ lt_call' = [called |-> TRUE, price |-> current_price, fetched |-> TRUE,
                               df |-> df, result |-> None]
                /\ UNCHANGED last_signal
           ELSE LET result == AppRunRules(Val(df).latest)
                IN  /\ lt_call' = [called |-> TRUE, price |-> current_price,
                                   fetched |-> TRUE, df |-> df, result |-> Some(result)]
                    /\ last_signal' = result.signal_strength
        /\ shown' = SignalBox(lt_call'.result)
        /\ lt_call' # lt_call \/ last_signal' # last_signal
        /\ UNCHANGED <<trackerVars, fetchVars, evalVars, restVars>>

\* ------------------------------------------------------------------------
\* Ranking: get_top_volume_tickers
\* ------------------------------------------------------------------------
\* results of pyupbit.get_tickers(fiat="KRW"): an exception, None or a listing
TickersResults ==
    {[exc |-> TRUE, value |-> None]} \cup
    {[exc |-> FALSE, value |-> v] :
        v \in {None, Some(<<>>), Some(<<"KRW-DOGE", "KRW-BTC">>),
               Some(<<"KRW-BTC", "KRW-ETH", "KRW-XRP", "KRW-DOGE">>)}}

\* results of pyupbit.get_current_price(tickers): an exception, None or prices
MarketsResults ==
    {[exc |-> TRUE, value |-> None]} \cup
    {[exc |-> FALSE, value |-> v] : v \in {None, Some("prices")}}

\* results of pyupbit.get_ohlcv(ticker, interval="day", count=1): an
\* exception, None, an empty frame or a frame of one daily candle
DailyResults ==
    {[exc |-> TRUE, value |-> None]} \cup
    {[exc |-> FALSE, value |-> v] :
        v \in {None, Some([len |-> 0, close |-> 0, volume |-> 0])} \cup
              {Some(f) : f \in [len : {1}, close : {1, 2}, volume : {1, 2}]}}

\* daily_data is not None and not daily_data.empty
DailyOk(d) == d # None /\ Val(d).len # 0

\* mutant of InsertReverse: x goes before the elements of equal volume
InsertReverseUnstable(sorted, x) ==
    LET before == SelectSeq(sorted, LAMBDA e : e[2] > x[2])
        after == SelectSeq(sorted, LAMBDA e : e[2] =< x[2])
    IN  before \o <<x>> \o after

\* one element taken into a list sorted by volume, largest first: x goes
\* behind the elements whose volume is not smaller (list.sort is stable, with
\* reverse=True too)
InsertReverse(sorted, x) ==
    LET before == SelectSeq(sorted, LAMBDA e : e[2] >= x[2])
        after == SelectSeq(sorted, LAMBDA e : e[2] < x[2])
    IN  before \o <<x>> \o after

RECURSIVE SortReverse(_)
\* volume_data.sort(key=lambda x: x[1], reverse=True)
SortReverse(data) ==
    IF data = <<>> THEN <<>>
    ELSE InsertReverse(SortReverse(SubSeq(data, 1, Len(data) - 1)), data[Len(data)])

\* mutant of TopSlice: the first four
TopSliceOfFour(data) == SubSeq(data, 1, IF Len(data) < 4 THEN Len(data) ELSE 4)

\* volume_data[:3]
TopSlice(data) == SubSeq(data, 1, IF Len(data) < 3 THEN Len(data) ELSE 3)

\* [item[0] for item in volume_data[:3]] after the sort
RankedTickers(data) ==
    LET top == TopSlice(SortReverse(data))
    IN  [i \in 1..Len(top) |-> top[i][1]]

\* entry of get_top_volume_tickers: pyupbit.get_tickers answers r; an
\* exception reaches the outer except, which returns []
get_top_volume_tickers(r) ==
    /\ r_pc = "idle"
    /\ IF r.exc
       THEN /\ r_pc' = "done"
            /\ r_ret' = Some(<<>>)
            /\ UNCHANGED tickers
       ELSE /\ r_pc' = "markets"
            /\ tickers' = r.value
            /\ UNCHANGED r_ret
    /\ markets' = None
    /\ r_attempts' = 0
    /\ UNCHANGED <<r_i, daily_data, volume_data, daily_log>>
    /\ UNCHANGED <<trackerVars, fetchVars, evalVars, appVars, pollVars>>

\* one iteration of the retry loop around pyupbit.get_current_price(tickers)
MarketsCall(r) ==
    /\ r_pc = "markets"
    /\ r_attempts < MaxAttempts
    /\ r_attempts' = r_attempts + 1
    /\ markets' = IF r.exc THEN markets ELSE r.value
    /\ r_pc' = IF ~r.exc /\ r.value # None THEN "markets_after"
               ELSE IF r_attempts + 1 < MaxAttempts THEN "markets"
               ELSE "markets_after"
    /\ UNCHANGED <<tickers, r_i, daily_data, volume_data, r_ret, daily_log>>
    /\ UNCHANGED <<trackerVars, fetchVars, evalVars, appVars, pollVars>>

\* if markets is None: return []; volume_data = []; the for loop is entered
\* (iterating over None raises, which the outer except answers with [])
markets_checked ==
    /\ r_pc = "markets_after"
    /\ IF markets = None \/ tickers = None
       THEN /\ r_pc' = "done"
            /\ r_ret' = Some(<<>>)
            /\ UNCHANGED <<r_i, r_attempts>>
       ELSE /\ r_pc' = IF Val(tickers) = <<>> THEN "sort" ELSE "daily"
            /\ r_i' = IF Val(tickers) = <<>> THEN 0 ELSE 1
            /\ r_attempts' = 0
            /\ UNCHANGED r_ret
    /\ volume_data' = <<>>
    /\ daily_data' = None
    /\ UNCHANGED <<tickers, markets, daily_log>>
    /\ UNCHANGED <<trackerVars, fetchVars, evalVars, appVars, pollVars>>

\* one iteration of the retry loop around pyupbit.get_ohlcv(ticker, "day", 1)
DailyCall(r) ==
    /\ r_pc = "daily"
    /\ r_attempts < MaxAttempts
    /\ r_attempts' = r_attempts + 1
    /\ daily_data' = IF r.exc THEN daily_data ELSE r.value
    /\ r_pc' = IF ~r.exc /\ DailyOk(r.value) THEN "daily_after"
               ELSE IF r_attempts + 1 < MaxAttempts THEN "daily"
               ELSE "daily_after"
    /\ UNCHANGED <<tickers, markets, r_i, volume_data, r_ret, daily_log>>
    /\ UNCHANGED <<trackerVars, fetchVars, evalVars, appVars, pollVars>>

\* the end of the loop body for one candidate: its volume is appended when
\* the daily fetch succeeded; fault: reading the candle raises, which the
\* except of the loop body answers with continue
candidate_done(fault) ==
    /\ r_pc = "daily_after"
    /\ fault => DailyOk(daily_data)
    /\ LET ticker == Val(tickers)[r_i]
           appended == DailyOk(daily_data) /\ ~fault
           volume == Val(daily_data).volume * Val(daily_data).close
       IN  /\ volume_data' = IF appended THEN Append(volume_data, <<ticker, volume>>)
                             ELSE volume_data
           /\ daily_log' = Append(daily_log,
                  [ticker |-> ticker, ok |-> appended,
                   volume |-> IF appended THEN volume ELSE 0])
    /\ IF r_i < Len(Val(tickers))
       THEN /\ r_i' = r_i + 1
            /\ r_pc' = "daily"
            /\ r_attempts' = 0
            /\ daily_data' = None
       ELSE /\ r_pc' = "sort"
            /\ UNCHANGED <<r_i, r_attempts, daily_data>>
    /\ UNCHANGED <<tickers, markets, r_ret>>
    /\ UNCHANGED <<trackerVars, fetchVars, evalVars, appVars, pollVars>>

\* the sort and the return of the first three tickers
ranking_return ==
    /\ r_pc = "sort"
    /\ r_pc' = "done"
    /\ volume_data' = SortReverse(volume_data)
    /\ r_ret' = Some(RankedTickers(volume_data))
    /\ UNCHANGED <<tickers, markets, r_attempts, r_i, daily_data, daily_log>>
    /\ UNCHANGED <<trackerVars, fetchVars, evalVars, appVars, pollVars>>

\* ------------------------------------------------------------------------
\* Polling loop: main
\* ------------------------------------------------------------------------
\* the two set_price_alert calls of main(), prices in millions
MainAlerts == <<<<100, "above">>, <<90, "below">>>>

\* provider answers in the polling loop: one kind of failed attempt, the
\* prices on either side of the first alert, a short and a sufficient frame
PollResults(kind) ==
    IF kind = "price"
    THEN {r \in PriceResults : r.exc \/ r.value # None}
    ELSE {r \in SeriesResults : r.exc \/ (r.value # None /\ Val(r.value).len # 0)}

\* the lists get_top_volume_tickers gives main()
TopResults == {<<>>, <<"KRW-BTC", "KRW-XRP">>}

NotInterrupted == [interrupted |-> FALSE, at |-> "", f_pc |-> "", attempts |-> 0]

\* mutant of SetAttr: the attribute is one object shared by all instances
SetAttrShared(f, a, v) == [b \in DOMAIN f |-> v]

\* self.<attribute> = v on the analyzer of ticker a: every CryptoAnalyzer has
\* its own price_alerts and last_volume
SetAttr(f, a, v) == [f EXCEPT ![a] = v]

RECURSIVE AddAnalyzers(_, _)
\* for ticker in top_tickers: if ticker not in analyzers: analyzers[ticker] = ...
AddAnalyzers(keys, top) ==
    IF top = <<>> THEN keys
    ELSE AddAnalyzers(IF Head(top) \in {keys[i] : i \in 1..Len(keys)} THEN keys
                      ELSE Append(keys, Head(top)),
                      Tail(top))

\* an attribute of all analyzers after the new ones were constructed
WithNewAnalyzers(f, keys, initial) ==
    [a \in {keys[i] : i \in 1..Len(keys)} |-> IF a \in DOMAIN f THEN f[a] ELSE initial]

\* mutant of AfterAnalyzer: an exception ends the for loop over the analyzers
AfterAnalyzerStopOnError(i, n, outcome) ==
    IF outcome = "error" \/ i >= n THEN "sleep" ELSE "assets"

\* where main() goes on after the analyzer at position i of n: the try of
\* the loop body handles every outcome, the for loop goes on
AfterAnalyzer(i, n, outcome) == IF i < n THEN "assets" ELSE "sleep"

\* the lines of main() before the while loop
main_start ==
    /\ p_pc = "start"
    /\ p_pc' = "cycle"
    /\ price_alerts' = SetAttr(price_alerts, "KRW-BTC",
           DictSet(DictSet(price_alerts["KRW-BTC"], MainAlerts[1][1], MainAlerts[1][2]),
                   MainAlerts[2][1], MainAlerts[2][2]))
    /\ UNCHANGED <<last_volume, alert_call, fired, volume_log>>
    /\ UNCHANGED <<analyzers, p_cycle, p_i, p_price, p_out, p_failed, p_exit>>
    /\ UNCHANGED <<fetchVars, evalVars, appVars, rankVars>>

\* the head of one iteration of the while loop: get_top_volume_tickers gives
\* top, an analyzer is constructed for every new ticker
cycle_start(top) ==
    /\ p_pc = "cycle"
    /\ p_cycle < MaxCycles
    /\ p_cycle' = p_cycle + 1
    /\ analyzers' = AddAnalyzers(analyzers, top)
    /\ price_alerts' = WithNewAnalyzers(price_alerts, analyzers', <<>>)
    /\ last_volume' = WithNewAnalyzers(last_volume, analyzers', None)
    /\ p_failed' = {p_out[i].ticker : i \in {j \in 1..Len(p_out) : p_out[j].outcome # "result"}}
    /\ p_out' = <<>>
    /\ p_i' = 1
    /\ p_pc' = "assets"
    /\ UNCHANGED <<alert_call, fired, volume_log, p_price, p_exit>>
    /\ UNCHANGED <<fetchVars, evalVars, appVars, rankVars>>

\* analyzer.analyze_signals() is called for the analyzer at position p_i
analyze_signals_call ==
    /\ p_pc = "assets"
    /\ p_pc' = "price"
    /\ p_price' = None
    /\ UNCHANGED <<analyzers, p_cycle, p_i, p_out, p_failed, p_exit>>
    /\ UNCHANGED <<trackerVars, fetchVars, evalVars, appVars, rankVars>>

\* what main() prints for the analyzer at position p_i, and where it goes on
AnalyzerDone(outcome, cause) ==
    /\ p_out' = Append(p_out, [ticker |-> analyzers[p_i], outcome |-> outcome,
                               cause |-> cause])
    /\ p_pc' = AfterAnalyzer(p_i, Len(analyzers), outcome)
    /\ p_i' = p_i + 1
    /\ p_price' = None
    /\ f_pc' = "idle"
    /\ f_kind' = ""
    /\ f_attempts' = 0
    /\ f_value' = None
    /\ f_calls' = <<>>
    /\ f_ret' = NotReturned
    /\ UNCHANGED <<analyzers, p_cycle, p_failed, p_exit>>

\* analyze_signals after get_current_price returned: None ends it
price_returned ==
    /\ p_pc = "price"
    /\ f_pc = "done"
    /\ IF f_ret.value = None
       THEN AnalyzerDone("none", "price")
       ELSE /\ p_price' = f_ret.value
            /\ p_pc' = "series"
            /\ f_pc' = "idle"
            /\ UNCHANGED <<f_kind, f_attempts, f_value, f_calls, f_ret>>
            /\ UNCHANGED <<analyzers, p_cycle, p_i, p_out, p_failed, p_exit>>
    /\ UNCHANGED <<trackerVars, evalVars, appVars, rankVars>>

\* mutant of SufficientLength: every frame calculate_indicators returns is
\* evaluated, whatever its length
SufficientLengthAny(df) == df # None

\* the test of analyze_signals on what calculate_indicators returned:
\* not (df is None or len(df) < 60)
SufficientLength(df) == df # None /\ Val(df).len >= 60

\* analyze_signals after calculate_indicators returned: the length test, then
\* check_volume_surge, check_price_alerts, plot_chart and the rule set, and
\* what main() does with the result.  sink_fails: the playsound call of
\* check_volume_surge raises; fail_at: the playsound call of
\* check_price_alerts that raises; late_fault: plot_chart or
\* print_analysis_result raises
analyze_signals_rest(sink_fails, fail_at, late_fault) ==
    LET a == analyzers[p_i]
        df == f_ret.value
        enough == SufficientLength(df)
        surge == enough /\ SurgeDetected(last_volume[a], Val(df).volume)
        scan == ScanAlerts(price_alerts[a], Val(p_price), fail_at, <<>>, <<>>)
    IN  /\ p_pc = "series"
        /\ f_pc = "done"
        /\ sink_fails => (surge /\ fail_at = 0 /\ ~late_fault)
        /\ fail_at # 0 => (enough /\ scan.raised /\ ~late_fault)
        /\ late_fault => enough
        /\ IF ~enough
           THEN /\ AnalyzerDone("none", IF df = None THEN "series" ELSE "short")
                /\ UNCHANGED <<price_alerts, last_volume>>
           ELSE IF sink_fails
           THEN /\ AnalyzerDone("error", "raised")
                /\ UNCHANGED <<price_alerts, last_volume>>
           ELSE /\ last_volume' = SetAttr(last_volume, a, Some(Val(df).volume))
                /\ price_alerts' = SetAttr(price_alerts, a, AfterCheck(price_alerts[a], scan))
                /\ IF scan.raised \/ late_fault
                   THEN AnalyzerDone("error", "raised")
                   ELSE AnalyzerDone("result", "")
        /\ UNCHANGED <<alert_call, fired, volume_log>>
        /\ UNCHANGED <<evalVars, appVars, rankVars>>

\* time.sleep(15) returns
sleep_done ==
    /\ p_pc = "sleep"
    /\ p_pc' = "cycle"
    /\ UNCHANGED <<analyzers, p_cycle, p_i, p_price, p_out, p_failed, p_exit>>
    /\ UNCHANGED <<trackerVars, fetchVars, evalVars, appVars, rankVars>>

\* mutant of KeyboardInterrupt: the interrupt is raised only between two
\* calls of main(), never inside analyze_signals
KeyboardInterruptAtBoundary ==
    /\ p_pc \in {"cycle", "assets", "sleep"}
    /\ p_pc' = "exited"
    /\ p_exit' = [interrupted |-> TRUE, at |-> p_pc, f_pc |-> f_pc, attempts |-> f_attempts]
    /\ UNCHANGED <<analyzers, p_cycle, p_i, p_price, p_out, p_failed>>
    /\ UNCHANGED <<trackerVars, fetchVars, evalVars, appVars, rankVars>>

\* Ctrl-C: KeyboardInterrupt is raised where the program is; no `except
\* Exception` catches it, the except of the while loop breaks
KeyboardInterrupt ==
    /\ p_pc \in {"cycle", "assets", "price", "series", "sleep"}
    /\ p_pc' = "exited"
    /\ p_exit' = [interrupted |-> TRUE, at |-> p_pc, f_pc |-> f_pc, attempts |-> f_attempts]
    /\ UNCHANGED <<analyzers, p_cycle, p_i, p_price, p_out, p_failed>>
    /\ UNCHANGED <<trackerVars, fetchVars, evalVars, appVars, rankVars>>

\* ------------------------------------------------------------------------
\* Specifications
\* ------------------------------------------------------------------------
\* CryptoAnalyzer.__init__ for every ticker
Init ==
    /\ price_alerts = [a \in Tickers |-> <<>>]
    /\ last_volume = [a \in Tickers |-> None]
    /\ alert_call = [op |-> "init", ticker |-> "", arg |-> 0, alert_type |-> "",
                     before |-> <<>>, printed |-> <<>>, raised |-> FALSE, ret |-> None]
    /\ fired = [a \in Tickers |-> {}]
    /\ volume_log = <<>>
    /\ f_pc = "idle"
    /\ f_kind = ""
    /\ f_attempts = 0
    /\ f_value = None
    /\ f_calls = <<>>
    /\ f_ret = NotReturned
    /\ ev_in = ScenarioRow
    /\ ev_result = None
    /\ lt_call = NotCalled
    /\ last_signal = 0
    /\ shown = None
    /\ r_pc = "idle"
    /\ tickers = <<>>
    /\ markets = None
    /\ r_attempts = 0
    /\ r_i = 0
    /\ daily_data = None
    /\ volume_data = <<>>
    /\ r_ret = None
    /\ daily_log = <<>>
    /\ analyzers = <<"KRW-BTC", "KRW-DOGE">>
    /\ p_pc = "start"
    /\ p_cycle = 0
    /\ p_i = 0
    /\ p_price = None
    /\ p_out = <<>>
    /\ p_failed = {}
    /\ p_exit = NotInterrupted

NextAlerts ==
    \/ \E a \in Tickers, t \in Targets, ty \in AlertTypes : set_price_alert(a, t, ty)
    \/ \E a \in Tickers, p \in Prices, k \in 0..Cardinality(Targets) :
          check_price_alerts(a, p, k)

NextVolume ==
    \E a \in Tickers, df \in Frames, sink_fails \in BOOLEAN :
        check_volume_surge(a, df, sink_fails)

\* an iteration of the retry loop with any answer of the provider
Attempt ==
    \E r \in (IF f_kind = "price" THEN PriceResults ELSE SeriesResults) : ProviderCall(r)

NextFetch ==
    \/ \E kind \in {"price", "series"} : FetchStart(kind)
    \/ Attempt
    \/ get_current_price_return
    \/ \E fault \in BOOLEAN : calculate_indicators_return(fault)

NextApp ==
    \E price_r \in AppPriceResults(ev_in), series_r \in AppSeriesResults :
        app_analyze_signals(price_r, series_r)

NextEval ==
    \/ \E f \in FreeFields : \E v \in Alternatives(f) \cup {ScenarioRow[f]} : NewInputs(f, v)
    \/ \E base \in BaseRows : NewSeries(base)
    \/ analyze_signals_rules
    \/ NextApp

\* the indicator pipelines of market_analyzer.py and of app.py
NextCompute == NextFetch \/ NextApp

SpecCompute == Init /\ [][NextCompute]_vars

NextRank ==
    \/ \E r \in TickersResults : get_top_volume_tickers(r)
    \/ \E r \in MarketsResults : MarketsCall(r)
    \/ markets_checked
    \/ \E r \in DailyResults : DailyCall(r)
    \/ \E fault \in BOOLEAN : candidate_done(fault)
    \/ ranking_return

SpecRank == Init /\ [][NextRank]_vars

\* the steps of get_current_price and calculate_indicators inside
\* analyze_signals
PollFetch ==
    \/ p_pc = "price" /\ FetchStart("price")
    \/ p_pc = "series" /\ FetchStart("series")
    \/ p_pc \in {"price", "series"} /\ \E r \in PollResults(f_kind) : ProviderCall(r)
    \/ p_pc = "price" /\ get_current_price_return
    \/ p_pc = "series" /\ \E fault \in BOOLEAN : calculate_indicators_return(fault)

NextPoll ==
    \/ main_start
    \/ \E top \in TopResults : cycle_start(top)
    \/ analyze_signals_call
    \/ PollFetch
    \/ price_returned
    \/ \E sink_fails, late_fault \in BOOLEAN, fail_at \in 0..Len(MainAlerts) :
           analyze_signals_rest(sink_fails, fail_at, late_fault)
    \/ sleep_done
    \/ KeyboardInterrupt

SpecPoll == Init /\ [][NextPoll]_vars

SpecAlerts == Init /\ [][NextAlerts]_vars

SpecEval == Init /\ [][NextEval]_vars

SpecVolume == Init /\ [][NextVolume]_vars

SpecFetch == Init /\ [][NextFetch]_vars

\* the interpreter keeps executing a fetch that was begun
FairSpecFetch ==
    /\ SpecFetch
    /\ WF_vars(Attempt)
    /\ WF_vars(get_current_price_return)
    /\ WF_vars(\E fault \in BOOLEAN : calculate_indicators_return(fault))

Next == NextAlerts \/ NextVolume \/ NextFetch \/ NextEval \/ NextRank

Spec == Init /\ [][Next]_vars

\* ------------------------------------------------------------------------
\* Properties of the alert registry
\* ------------------------------------------------------------------------
Range(q) == {q[i] : i \in 1..Len(q)}

\* the firing condition as the specification words it
ShouldFire(entry, current_price) ==
    \/ entry[2] = "above" /\ current_price > entry[1]
    \/ entry[2] = "below" /\ current_price < entry[1]

IsPrefix(p, q) == Len(p) =< Len(q) /\ SubSeq(q, 1, Len(p)) = p

\* C1: once a check has announced the alert registered at target T, no later
\* check of the same asset announces T again unless T was registered again in
\* between, on every path through check_price_alerts (a failing playsound
\* included).
C1_AtMostOnceFiring ==
    [][alert_call'.op = "check_price_alerts" =>
          \A t \in DictKeys(alert_call'.printed) : t \notin fired[alert_call'.ticker]]_vars

\* C2: a check announces an entry exactly when its strict firing condition
\* holds, and afterwards the registry is the registry before the call minus
\* exactly the announced entries; with the scenario register(100, above),
\* check(99), check(101), check(150).
C2_CheckFiresAndRemoves ==
    alert_call.op = "check_price_alerts" =>
        LET before == alert_call.before
            current_price == alert_call.arg
            after == price_alerts[alert_call.ticker]
        IN  /\ \A e \in Range(before) :
                   e \in Range(alert_call.printed) <=> ShouldFire(e, current_price)
            /\ after = SelectSeq(before, LAMBDA e : e \notin Range(alert_call.printed))
            /\ (before = <<<<100, "above">>>> /\ current_price = 99) =>
                   (alert_call.printed = <<>> /\ after = <<<<100, "above">>>>)
            /\ (before = <<<<100, "above">>>> /\ current_price = 101) =>
                   (alert_call.printed = <<<<100, "above">>>> /\ after = <<>>)
            /\ (before = <<>> /\ current_price = 150) =>
                   (alert_call.printed = <<>> /\ after = <<>>)

\* the state part of C8
UpsertResult ==
    alert_call.op = "set_price_alert" =>
        LET before == alert_call.before
            after == price_alerts[alert_call.ticker]
            t == alert_call.arg
        IN  /\ Cardinality({i \in 1..Len(after) : after[i][1] = t}) = 1
            /\ <<t, alert_call.alert_type>> \in Range(after)
            /\ SelectSeq(after, LAMBDA e : e[1] # t) = SelectSeq(before, LAMBDA e : e[1] # t)

NoDuplicateTargets ==
    \A a \in Tickers : \A i, j \in 1..Len(price_alerts[a]) :
        price_alerts[a][i][1] = price_alerts[a][j][1] => i = j

\* the step part of C8: the same registration made twice in a row
SameRegistrationAgain ==
    /\ alert_call.op = "set_price_alert"
    /\ alert_call'.op = "set_price_alert"
    /\ alert_call'.ticker = alert_call.ticker
    /\ alert_call'.arg = alert_call.arg
    /\ alert_call'.alert_type = alert_call.alert_type

\* C8: set_price_alert is an idempotent upsert: afterwards the registry maps
\* the target to the direction given and every other entry is unchanged, the
\* same registration made twice leaves the registry as after the first, and no
\* registry ever holds two entries for one target.
C8_RegisterIsUpsert ==
    /\ [](UpsertResult /\ NoDuplicateTargets)
    /\ [][SameRegistrationAgain => price_alerts' = price_alerts]_vars

\* C8 witness: an existing target was registered again with the other
\* direction while another entry was present
C8_Witness ==
    /\ alert_call.op = "set_price_alert"
    /\ Len(alert_call.before) = 2
    /\ \E e \in Range(alert_call.before) :
           e[1] = alert_call.arg /\ e[2] # alert_call.alert_type
    /\ Len(price_alerts[alert_call.ticker]) = 2

\* the entries of a registry whose firing condition holds, in registry order
FiringEntries(d, current_price) == SelectSeq(d, LAMBDA e : ShouldFire(e, current_price))

\* C9 as stated: check returns to its caller the list of the entries that
\* fired, in registration order.
C9_CheckReturnsFired ==
    alert_call.op = "check_price_alerts" =>
        alert_call.ret = Some(FiringEntries(alert_call.before, alert_call.arg))

\* C9 amended: check returns nothing (None); the entries it announces are, in
\* registry order, the entries whose firing condition holds, up to and
\* including the first one whose playsound call raises (all of them when no
\* call raises).
C9_CheckAnnouncesInOrder ==
    alert_call.op = "check_price_alerts" =>
        LET firing == FiringEntries(alert_call.before, alert_call.arg)
        IN  /\ alert_call.ret = None
            /\ IsPrefix(alert_call.printed, firing)
            /\ ~alert_call.raised => alert_call.printed = firing
            /\ alert_call.raised => alert_call.printed # <<>>

\* C9 witness: one check announced two entries, 120 registered before 100
C9_Witness ==
    /\ alert_call.op = "check_price_alerts"
    /\ Len(alert_call.printed) = 2
    /\ alert_call.printed[1][1] = 120
    /\ alert_call.printed[2][1] = 100
    /\ ~alert_call.raised

\* ------------------------------------------------------------------------
\* Properties of the volume state
\* ------------------------------------------------------------------------
\* the calls of volume_log made on ticker a that went past the length guard
RECURSIVE CallsOf(_, _)
CallsOf(log, a) ==
    IF log = <<>> THEN <<>>
    ELSE IF Head(log).ticker = a /\ Head(log).checked
         THEN <<Head(log)>> \o CallsOf(Tail(log), a)
         ELSE CallsOf(Tail(log), a)

\* C5: the first check_volume_surge call on a tracker that stores no previous
\* volume signals no surge, whatever the volume.
C5_NoSurgeOnFirstObservation ==
    \A a \in Tickers :
        LET calls == CallsOf(volume_log, a)
        IN  /\ calls # <<>> => (Head(calls).prev = None /\ ~Head(calls).surge)
            /\ \A i \in 1..Len(calls) : calls[i].prev = None => ~calls[i].surge

\* C5 witness: a first observation with the largest volume
C5_Witness ==
    \E a \in Tickers :
        LET calls == CallsOf(volume_log, a)
        IN  calls # <<>> /\ Val(Head(calls).df).volume = 250 /\ last_volume[a] = Some(250)

\* C6: after every check_volume_surge(latest_volume) call the stored volume is
\* latest_volume, whether or not a surge was signalled and whether or not the
\* sink failed.
C6_StoredVolumeIsLatest ==
    (volume_log # <<>> /\ volume_log[Len(volume_log)].checked) =>
        LET call == volume_log[Len(volume_log)]
        IN  last_volume[call.ticker] = Some(Val(call.df).volume)

\* C7: with a previous volume, a surge is signalled exactly when latest /
\* previous is strictly above the threshold 2.0; for the volumes 100, 250, 100
\* the calls signal no surge, a surge (ratio 2.5), no surge (ratio 0.4) and
\* 100 is stored at the end.
C7_SurgeIffRatioAboveThreshold ==
    \A a \in Tickers :
        LET calls == CallsOf(volume_log, a)
            latest(i) == Val(calls[i].df).volume
        IN  /\ \A i \in 1..Len(calls) : calls[i].prev # None =>
                   (calls[i].surge <=> latest(i) > 2 * Val(calls[i].prev))
            /\ (Len(calls) >= 2 /\ latest(1) = 100 /\ latest(2) = 250) =>
                   /\ ~calls[1].surge
                   /\ calls[2].surge
                   /\ calls[2].volume_change.kind = "num"
                   /\ 2 * calls[2].volume_change.num = 5 * calls[2].volume_change.den
            /\ (Len(calls) = 3 /\ latest(1) = 100 /\ latest(2) = 250 /\ latest(3) = 100) =>
                   /\ ~calls[3].surge
                   /\ calls[3].volume_change.kind = "num"
                   /\ 5 * calls[3].volume_change.num = 2 * calls[3].volume_change.den
                   /\ last_volume[a] = Some(100)

\* ------------------------------------------------------------------------
\* Properties of the series fetcher
\* ------------------------------------------------------------------------
\* a failed attempt as the specification words it: the provider raised, or
\* returned an absent or empty result
AttemptFailed(kind, r) ==
    \/ r.exc
    \/ r.value = None
    \/ kind = "series" /\ r.value # None /\ Val(r.value).len = 0

AllAttemptsFailed == \A i \in 1..Len(f_calls) : AttemptFailed(f_kind, f_calls[i])

LoopLeft == f_pc \in {"after", "done"}

\* the state part of C3
BoundedRetry ==
    /\ Len(f_calls) =< 3
    /\ ~f_ret.raised
    /\ (LoopLeft /\ AllAttemptsFailed) => Len(f_calls) = 3
    /\ (f_pc = "done" /\ AllAttemptsFailed) => (f_ret.done /\ f_ret.value = None)

\* C3: a fetch calls the provider at most 3 times; an attempt on which the
\* provider raises or returns an absent or empty result is retried until 3
\* attempts were made; when all 3 failed the fetch returns None, it never
\* raises to its caller, and every fetch that was begun returns.
C3_BoundedRetry ==
    /\ []BoundedRetry
    /\ (f_pc = "loop") ~> (f_pc = "done")

\* C3 witness: calculate_indicators returned None after an exception, an empty
\* frame and an absent result
C3_Witness ==
    /\ f_pc = "done"
    /\ f_kind = "series"
    /\ Len(f_calls) = 3
    /\ f_calls[1].exc
    /\ f_calls[2].value # None
    /\ f_calls[3].value = None /\ ~f_calls[3].exc
    /\ f_ret.done /\ f_ret.value = None

\* C4: when the provider succeeds on attempt k =< 3 after k - 1 failures, the
\* retry loop ends with exactly the result of attempt k and makes no further
\* provider call; get_current_price returns that result, calculate_indicators
\* returns that frame with its indicator columns unless computing them raised.
C4_SuccessEndsRetry ==
    \A k \in 1..Len(f_calls) : ~AttemptFailed(f_kind, f_calls[k]) =>
        /\ k = Len(f_calls)
        /\ k =< 3
        /\ LoopLeft
        /\ f_value = f_calls[k].value
        /\ (f_pc = "done" /\ f_kind = "price") => f_ret.value = f_calls[k].value
        /\ (f_pc = "done" /\ f_kind = "series") =>
               f_ret.value = IF f_ret.fault THEN None
                             ELSE Some(WithIndicators(Val(f_calls[k].value)))

\* C4 witness: two failed attempts, then a frame on the third, which is returned
C4_Witness ==
    /\ f_pc = "done"
    /\ f_kind = "series"
    /\ Len(f_calls) = 3
    /\ AttemptFailed(f_kind, f_calls[1])
    /\ AttemptFailed(f_kind, f_calls[2])
    /\ ~AttemptFailed(f_kind, f_calls[3])
    /\ f_ret.value = Some(WithIndicators(Val(f_calls[3].value)))

\* ------------------------------------------------------------------------
\* Properties of the signal aggregation
\* ------------------------------------------------------------------------
\* what rule i contributes and observes when it is evaluated on its own
RuleContribution(i, in) == Rule(i, NoSignals, in).signal_strength
RuleObservations(i, in) == Rule(i, NoSignals, in).signals

RECURSIVE SumOfContributions(_, _)
SumOfContributions(n, in) ==
    IF n = 0 THEN 0 ELSE SumOfContributions(n - 1, in) + RuleContribution(n, in)

RECURSIVE ObservationsInRuleOrder(_, _)
ObservationsInRuleOrder(n, in) ==
    IF n = 0 THEN <<>> ELSE ObservationsInRuleOrder(n - 1, in) \o RuleObservations(n, in)

\* the scenario of the specification; its price is the current price given to
\* evaluate
InScenario(in) ==
    /\ in.RSI = 25
    /\ in.MACD < in.MACD_Signal /\ in.MACD_Hist < in.prev_MACD_Hist
    /\ in.MA5 < in.MA20 /\ in.MA20 < in.MA60
    /\ in.BB_Lower =< in.current_price /\ in.current_price =< in.BB_Upper
    /\ in.Stoch_K = 15 /\ in.Stoch_D = 10
    /\ in.ADX = 30 /\ in.DI_minus > in.DI_plus
    /\ in.OBV < in.OBV_MA
    /\ in.current_price < in.Ichimoku_SpanA /\ in.current_price < in.Ichimoku_SpanB
    /\ in.ROC = -6
    /\ in.current_price = in.Lower_Channel

\* C10: the score is the sum of the contributions of the ten rules, each
\* computed on its own as -1, 0 or +1, the observations are those of the rules
\* in rule order, and in the scenario of the specification the score is -5
\* with 9 observations.
C10_ScoreIsSumOfRules ==
    ev_result # None =>
        LET result == Val(ev_result)
        IN  /\ \A i \in 1..10 : RuleContribution(i, ev_in) \in {-1, 0, 1}
            /\ result.signal_strength = SumOfContributions(10, ev_in)
            /\ result.signals = ObservationsInRuleOrder(10, ev_in)
            /\ InScenario(ev_in) => (result.signal_strength = -5 /\ Len(result.signals) = 9)

\* the lighter rule set of app.py: what each rule contributes on its own
AppContribution(i, latest) ==
    CASE i = 1 -> AppRsiRule(NoSignals, latest).signal_strength
      [] i = 2 -> AppMacdRule(NoSignals, latest).signal_strength
      [] i = 3 -> AppMaRule(NoSignals, latest).signal_strength

\* C11: the score analyze_signals gives is an integer in -10..10 for the full
\* rule set of market_analyzer.py and an integer in -4..4 for the rule set of
\* app.py (RSI 2 or -2, MACD 1 or -1, MA 1 or -1), whatever the inputs.
C11_ScoreIsBounded ==
    /\ ev_result # None => Val(ev_result).signal_strength \in -10..10
    /\ lt_call.result # None =>
           LET latest == Val(lt_call.df).latest
           IN  /\ Val(lt_call.result).signal_strength \in -4..4
               /\ AppContribution(1, latest) \in {-2, 0, 2}
               /\ AppContribution(2, latest) \in {-1, 1}
               /\ AppContribution(3, latest) \in {-1, 1}
               /\ Val(lt_call.result).signal_strength =
                      AppContribution(1, latest) + AppContribution(2, latest)
                      + AppContribution(3, latest)

\* C11 witness: on one row the full rule set scored -9 and the rule set of
\* app.py scored -4, its lowest score
C11_Witness ==
    /\ ev_result # None
    /\ Val(ev_result).signal_strength = -9
    /\ lt_call.result # None
    /\ Val(lt_call.result).signal_strength = -4

\* C12: analyze_signals gives no result whenever the current price is absent
\* or a column a rule reads is undefined in the evaluated row; a result is
\* never computed from an undefined indicator value (app.py: 20 candles
\* required, RSI(14), MACD 12/26 with 9-period signal, MA5, MA20).
C12_NoScoreFromUndefined ==
    lt_call.called =>
        /\ lt_call.price = None => lt_call.result = None
        /\ lt_call.result # None =>
               LET latest == Val(lt_call.df).latest
               IN  \A column \in DOMAIN latest : latest[column] # NaN

\* ------------------------------------------------------------------------
\* Properties of the indicator pipelines
\* ------------------------------------------------------------------------
\* C13 as stated: calculate_indicators returns None for every series that is
\* absent, empty or shorter than the minimum length (60 candles in
\* market_analyzer.py, 20 in app.py), and a frame only for longer series.
C13_ComputeRejectsShortSeries ==
    /\ (f_pc = "done" /\ f_kind = "series" /\ f_ret.value # None) =>
           Val(f_ret.value).len >= 60
    /\ lt_call.df # None => Val(lt_call.df).len >= 20

\* C13 amended: calculate_indicators returns None exactly when the fetched
\* series is absent or empty or the indicator computation raised, and returns
\* every non-empty series, whatever its length, with its indicator columns;
\* in app.py it is analyze_signals that answers a frame of fewer than 20
\* candles with None.
C13_ComputeReturnsNonEmptySeries ==
    /\ (f_pc = "done" /\ f_kind = "series") =>
           /\ f_ret.value = None <=>
                  (f_value = None \/ Val(f_value).len = 0 \/ f_ret.fault)
           /\ f_ret.value # None =>
                  /\ Val(f_ret.value).len = Val(f_value).len
                  /\ Val(f_ret.value).indicators
    /\ lt_call.df # None =>
           /\ Val(lt_call.df).len >= 1
           /\ lt_call.result = None <=> Val(lt_call.df).len < 20

\* C13 witness: calculate_indicators of market_analyzer.py returned a frame of
\* one candle, and calculate_indicators of app.py a frame of 19 candles for
\* which analyze_signals gave no result
C13_Witness ==
    /\ f_pc = "done" /\ f_kind = "series"
    /\ f_ret.value # None /\ Val(f_ret.value).len = 1
    /\ lt_call.df # None /\ Val(lt_call.df).len = 19
    /\ lt_call.result = None

\* ------------------------------------------------------------------------
\* Properties of the ranking
\* ------------------------------------------------------------------------
\* get_top_volume_tickers returned from its last line, after the sort
Ranked == r_pc = "done" /\ markets # None /\ tickers # None

\* the candidates whose daily fetch succeeded / failed
FetchedTickers == {e.ticker : e \in {x \in Range(daily_log) : x.ok}}
FailedTickers == {e.ticker : e \in {x \in Range(daily_log) : ~x.ok}}

\* close * volume of the latest daily candle of a fetched candidate
DailyValue(t) == (CHOOSE e \in Range(daily_log) : e.ticker = t).volume

\* the position of a candidate in the provider's listing
ListingIndex(t) == CHOOSE i \in 1..Len(Val(tickers)) : Val(tickers)[i] = t

\* what C15 says of the returned list except for its order
TopOfFetched(ret) ==
    /\ Len(ret) =< 3
    /\ \A i, j \in 1..Len(ret) : ret[i] = ret[j] => i = j
    /\ Range(ret) \subseteq FetchedTickers
    /\ Range(ret) \cap FailedTickers = {}
    /\ Len(ret) = IF Cardinality(FetchedTickers) < 3 THEN Cardinality(FetchedTickers) ELSE 3
    /\ \A t \in FetchedTickers \ Range(ret) : \A u \in Range(ret) :
           DailyValue(u) >= DailyValue(t)

\* C15 as stated: the ranking returns at most 3 tickers, each fetched
\* successfully, in strictly descending order of close * volume, the highest
\* of the fetched candidates; a candidate whose daily fetch failed is absent
\* and does not make the ranking fail.
C15_RankingStrictlyDescending ==
    Ranked =>
        LET ret == Val(r_ret)
        IN  /\ TopOfFetched(ret)
            /\ \A i, j \in 1..Len(ret) : i < j => DailyValue(ret[i]) > DailyValue(ret[j])

\* C15 amended: the same, the order being descending with equal values
\* allowed next to each other.
C15_RankingDescending ==
    Ranked =>
        LET ret == Val(r_ret)
        IN  /\ TopOfFetched(ret)
            /\ \A i, j \in 1..Len(ret) : i < j => DailyValue(ret[i]) >= DailyValue(ret[j])

\* C15 witness: of four candidates the second failed after three attempts;
\* the other three are returned, the one of highest value listed last
C15_Witness ==
    /\ Ranked
    /\ Len(daily_log) = 4
    /\ ~daily_log[2].ok
    /\ daily_log[1].volume = 1 /\ daily_log[3].volume = 2 /\ daily_log[4].volume = 4
    /\ Val(r_ret) = <<"KRW-DOGE", "KRW-XRP", "KRW-BTC">>

\* C16: two fetched candidates of equal close * volume are returned in the
\* order of the provider's listing, and when only one of them is within the
\* first 3 it is the one listed earlier.
C16_TiesKeepListingOrder ==
    Ranked =>
        LET ret == Val(r_ret)
        IN  /\ \A i, j \in 1..Len(ret) :
                   (i < j /\ DailyValue(ret[i]) = DailyValue(ret[j])) =>
                       ListingIndex(ret[i]) < ListingIndex(ret[j])
            /\ \A t \in FetchedTickers \ Range(ret) : \A u \in Range(ret) :
                   DailyValue(u) = DailyValue(t) => ListingIndex(u) < ListingIndex(t)

\* C16 witness: the last three of four candidates have equal values, the
\* cut falls between the third and the fourth
C16_Witness ==
    /\ Ranked
    /\ Len(daily_log) = 4
    /\ \A i \in 1..4 : daily_log[i].ok
    /\ daily_log[1].volume = 4
    /\ \A i \in 2..4 : daily_log[i].volume = 2
    /\ Val(r_ret) = <<"KRW-BTC", "KRW-ETH", "KRW-XRP">>

\* ------------------------------------------------------------------------
\* Properties of single rules
\* ------------------------------------------------------------------------
\* the symmetric MACD rule of the specification
SymmetricMacd(in) ==
    IF in.MACD > in.MACD_Signal /\ in.MACD_Hist > in.prev_MACD_Hist THEN 1
    ELSE IF in.MACD < in.MACD_Signal /\ in.MACD_Hist < in.prev_MACD_Hist THEN -1
    ELSE 0

\* C18: the MACD rule contributes +1 exactly when MACD is strictly above its
\* signal and the histogram rose, -1 exactly when MACD is strictly below its
\* signal and the histogram fell, and 0 otherwise; a row whose MACD equals
\* its signal is not taken as bearish and contributes 0.
C18_MacdRuleIsSymmetric ==
    ev_result # None =>
        /\ RuleContribution(2, ev_in) = SymmetricMacd(ev_in)
        /\ ev_in.MACD = ev_in.MACD_Signal =>
               /\ RuleContribution(2, ev_in) = 0
               /\ "MACD downtrend strengthening" \notin Range(Val(ev_result).signals)
               /\ "MACD downtrend" \notin Range(Val(ev_result).signals)

\* the Ichimoku rule of the specification, decided by the current price
IchimokuByCurrentPrice(in) ==
    IF in.current_price > in.Ichimoku_SpanA /\ in.current_price > in.Ichimoku_SpanB THEN 1
    ELSE IF in.current_price < in.Ichimoku_SpanA /\ in.current_price < in.Ichimoku_SpanB
    THEN -1
    ELSE 0

\* C19: the Ichimoku rule is decided by the current price given to
\* analyze_signals, the price the Bollinger and channel rules use: +1 above
\* both spans, -1 below both, 0 otherwise, whatever the last close of the row.
C19_IchimokuUsesCurrentPrice ==
    ev_result # None =>
        /\ RuleContribution(8, ev_in) = IchimokuByCurrentPrice(ev_in)
        /\ IchimokuByCurrentPrice(ev_in) = 1 =>
               "Ichimoku bullish" \in Range(Val(ev_result).signals)

\* ------------------------------------------------------------------------
\* Properties of the polling loop
\* ------------------------------------------------------------------------
\* the tickers main() has dealt with in this iteration, in order
Evaluated == [i \in 1..Len(p_out) |-> p_out[i].ticker]

\* C14: in one iteration of the polling loop a failed fetch, a short series
\* or an exception in the evaluation of one analyzer gives no result for that
\* analyzer only: every analyzer is evaluated in every iteration whatever
\* happened to the others, also the ones that failed in the iteration before,
\* and the loop ends only by an interrupt.
C14_FaultIsolation ==
    /\ p_pc \in {"assets", "price", "series"} =>
           (p_i =< Len(analyzers) /\ Evaluated = SubSeq(analyzers, 1, p_i - 1))
    /\ p_pc = "sleep" => (Evaluated = analyzers /\ p_failed \subseteq Range(Evaluated))
    /\ \A i \in 1..Len(p_out) : p_out[i].outcome = "result" <=> p_out[i].cause = ""
    /\ p_pc = "exited" => p_exit.interrupted

\* C14 witness: in the second iteration the first analyzer, which failed in
\* the first iteration, gave a result, the evaluation of the second raised
\* and the third gave a result
C14_Witness ==
    /\ p_pc = "sleep"
    /\ p_cycle = 2
    /\ Len(p_out) = 3
    /\ p_out[1].ticker \in p_failed
    /\ p_out[1].outcome = "result"
    /\ p_out[2].outcome = "error"
    /\ p_out[3].outcome = "result"

\* C17: a step of the program changes the price_alerts and the last_volume
\* of the analyzer it acts on only: set_price_alert on KRW-BTC before the
\* loop, check_volume_surge and check_price_alerts inside analyze_signals of
\* the analyzer being evaluated.
C17_StateIsPrivate ==
    [][\A b \in DOMAIN price_alerts :
          (price_alerts'[b] # price_alerts[b] \/ last_volume'[b] # last_volume[b]) =>
              \/ p_pc = "start" /\ b = "KRW-BTC"
              \/ p_pc = "series" /\ b = analyzers[p_i]]_vars

\* C17 witness: both analyzers of main() were evaluated with a result; the
\* alerts are registered with KRW-BTC only and each analyzer stores a volume
C17_Witness ==
    /\ p_pc = "sleep"
    /\ p_out[1].outcome = "result" /\ p_out[2].outcome = "result"
    /\ price_alerts["KRW-BTC"] # <<>>
    /\ price_alerts["KRW-DOGE"] = <<>>
    /\ last_volume["KRW-BTC"] # None
    /\ last_volume["KRW-DOGE"] # None

\* C20 as stated: when the interrupt arrives while a retry loop is in
\* flight, the loop completes its attempts and returns before the polling
\* loop exits; the program never exits with a retry loop left midway.
C20_InterruptWaitsForRetryLoop ==
    p_pc = "exited" => f_pc \notin {"loop", "after"}

\* C20 amended: the interrupt takes effect where it arrives, also inside a
\* retry loop: it can end the program from every position of an iteration,
\* the retry loop in flight is left as it was (no further provider call is
\* made), and nothing is executed after the exit.
C20_InterruptEndsProgramAtOnce ==
    /\ [](p_pc \in {"cycle", "assets", "price", "series", "sleep"} =>
              ENABLED KeyboardInterrupt)
    /\ [](p_pc = "exited" =>
              /\ p_exit.interrupted
              /\ f_pc = p_exit.f_pc
              /\ f_attempts = p_exit.attempts
              /\ Len(f_calls) = p_exit.attempts)
    /\ [][p_pc # "exited"]_vars

\* C20 witness: the program exited inside get_current_price after one failed
\* attempt of three
C20_Witness ==
    /\ p_pc = "exited"
    /\ p_exit.at = "price"
    /\ p_exit.f_pc = "loop"
    /\ p_exit.attempts = 1
    /\ f_calls[1].exc

\* C21: an evaluation that ends with no result because the current price is
\* absent, the series is absent or the series has fewer than 60 candles leaves
\* the price_alerts and the last_volume of its analyzer as they were, and
\* nothing is announced; inside the loop the two attributes change only in
\* the step of analyze_signals that has a current price and a series of at
\* least 60 candles, and only for the analyzer being evaluated.
C21_NoResultLeavesStateUnchanged ==
    [][/\ (Len(p_out') = Len(p_out) + 1 /\ p_out'[Len(p_out')].outcome = "none") =>
              /\ p_out'[Len(p_out')].cause \in {"price", "series", "short"}
              /\ UNCHANGED <<price_alerts, last_volume, alert_call, fired, volume_log>>
       /\ (p_pc \in {"assets", "price", "series", "sleep"} /\
               (price_alerts' # price_alerts \/ last_volume' # last_volume)) =>
              /\ p_pc = "series" /\ f_pc = "done"
              /\ p_price # None
              /\ f_ret.value # None /\ Val(f_ret.value).len >= 60
              /\ Len(p_out') = Len(p_out) + 1
              /\ p_out'[Len(p_out')].outcome # "none"
              /\ \A b \in DOMAIN price_alerts : b # analyzers[p_i] =>
                     (price_alerts'[b] = price_alerts[b] /\ last_volume'[b] = last_volume[b])
      ]_vars

\* C21 witness: in the second iteration the three evaluations gave no result,
\* one for each cause; KRW-BTC still has the two alerts registered before the
\* loop and the volume it stored in the first iteration
C21_Witness ==
    /\ p_pc = "sleep"
    /\ p_cycle = 2
    /\ Len(p_out) = 3
    /\ \A i \in 1..3 : p_out[i].outcome = "none"
    /\ {p_out[i].cause : i \in 1..3} = {"price", "series", "short"}
    /\ p_out[1].ticker = "KRW-BTC" /\ p_out[1].cause = "short"
    /\ Len(price_alerts["KRW-BTC"]) = 2
    /\ last_volume["KRW-BTC"] # None

\* ------------------------------------------------------------------------
\* Properties of the signal box of app.py
\* ------------------------------------------------------------------------
\* C22: whenever analyze_signals of app.py gives a result, the MACD rule and
\* the MA rule each contributed 1 or -1 and the RSI rule -2, 0 or 2, so the
\* score is one of -4, -2, 0, 2, 4 and never odd; the signal box main() draws
\* for it never takes the branches of get_signal_color and get_signal_message
\* for 1 and -1, and the result has 2 or 3 observations.  Without a result
\* no box is drawn.
C22_LighterScoreIsEven ==
    /\ lt_call.result = None => shown = None
    /\ lt_call.result # None =>
           LET latest == Val(lt_call.df).latest
               result == Val(lt_call.result)
           IN  /\ AppContribution(1, latest) \in {-2, 0, 2}
               /\ AppContribution(2, latest) \in {-1, 1}
               /\ AppContribution(3, latest) \in {-1, 1}
               /\ result.signal_strength \in {-4, -2, 0, 2, 4}
               /\ result.signal_strength % 2 = 0
               /\ Len(result.signals) \in {2, 3}
               /\ Len(result.signals) = 3 <=> AppContribution(1, latest) # 0
               /\ shown # None
               /\ Val(shown).signal_color \in {"green", "gray", "red"}
               /\ Val(shown).signal_title \in {"strong buy", "neutral", "strong sell"}
               /\ Val(shown).signal_color = "gray" <=> result.signal_strength = 0
               /\ Val(shown).signal_color = "green" <=> result.signal_strength >= 2

\* C22 witness: on a frame of 20 candles, whose MACD columns are undefined,
\* the MACD rule took its else branch and the MA rule its if branch, the RSI
\* rule observed nothing: two observations, score 0, a gray box
C22_Witness ==
    /\ lt_call.result # None
    /\ Val(lt_call.df).len = 20
    /\ Val(lt_call.df).latest.MACD = NaN
    /\ Len(Val(lt_call.result).signals) = 2
    /\ Val(lt_call.result).signal_strength = 0
    /\ shown # None
    /\ Val(shown).signal_color = "gray"

====
